---- MODULE Spec2Model ----
(***************************************************************************)
(* tweets-to-discord (src/src/main.rs): a relay that follows one Twitter   *)
(* account's filtered stream and posts every tweet of that account to a    *)
(* Discord channel, and that can tweet a Discord reply back to the tweet   *)
(* it answers.                                                             *)
(*                                                                         *)
(* Strings whose characters the program inspects (tweet text, URLs, field  *)
(* values, message content) are sequences of one-character strings.        *)
(* Strings the program only compares for equality (embed field labels)     *)
(* are TLA+ strings.                                                       *)
(***************************************************************************)
EXTENDS Integers, Sequences, FiniteSets, TLC

VARIABLES
    config,     \* DiscordConfig read from the configuration file
    mainPc,     \* position of main()
    user,       \* TwitterService.user: the watched account, once resolved
    feed,       \* what the origin platform has emitted on the filtered stream
    sup,        \* one entry per call of TwitterService::stream (per Ready)
    workers,    \* calls of handle_message suspended at an await
    chat,       \* every send attempt made to Discord, in order
    tasks,      \* one entry per call of Handler::message
    published   \* every DraftTweet::send attempt made to Twitter, in order

vars == <<config, mainPc, user, feed, sup, workers, chat, tasks, published>>

----------------------------------------------------------------------------
(* Bounds of the model *)

MaxFeed == 2        \* stream messages the platform emits
MaxReady == 2       \* Ready events the gateway dispatches
MaxMsgs == 1        \* Discord messages the gateway dispatches
MaxEmbedFields == 2 \* embeds of a message, and fields of an embed, given to the correlator

\* Every subscription receives what is emitted while it is open, so the
\* deliveries grow as the product of the two; the model keeps the product,
\* not only each factor, within MaxFeed.
WithinTraffic(nfeed, nsup) == nfeed * nsup <= MaxFeed

----------------------------------------------------------------------------
(* Option<T> and Result<T, E> *)

None == [some |-> FALSE]
Some(v) == [some |-> TRUE, val |-> v]

Ok(v) == [ok |-> TRUE, val |-> v]
Err(e) == [ok |-> FALSE, err |-> e]

----------------------------------------------------------------------------
(* Text *)

Digits == <<"0", "1", "2", "3", "4", "5", "6", "7", "8", "9">>

IsDigit(c) == \E d \in 1..10 : Digits[d] = c

DigitValue(c) == (CHOOSE d \in 1..10 : Digits[d] = c) - 1

\* format!("{}", n) for an unsigned integer: decimal, no sign, no leading zero
RECURSIVE FormatU64(_)
FormatU64(n) ==
    IF n < 10 THEN <<Digits[n + 1]>>
    ELSE FormatU64(n \div 10) \o <<Digits[(n % 10) + 1]>>

RECURSIVE SkipZeros(_)
SkipZeros(s) ==
    IF s # <<>> /\ Head(s) = "0" THEN SkipZeros(Tail(s)) ELSE s

U64MaxDigits ==
    <<"1", "8", "4", "4", "6", "7", "4", "4", "0", "7",
      "3", "7", "0", "9", "5", "5", "1", "6", "1", "5">>

\* lexicographic a > b for digit strings of equal length
RECURSIVE DigitsGreater(_, _)
DigitsGreater(a, b) ==
    IF a = <<>> THEN FALSE
    ELSE IF Head(a) = Head(b) THEN DigitsGreater(Tail(a), Tail(b))
    ELSE DigitValue(Head(a)) > DigitValue(Head(b))

OverflowsU64(digits) ==
    LET sig == SkipZeros(digits)
    IN  \/ Len(sig) > Len(U64MaxDigits)
        \/ Len(sig) = Len(U64MaxDigits) /\ DigitsGreater(sig, U64MaxDigits)

RECURSIVE DecimalValue(_, _)
DecimalValue(digits, acc) ==
    IF digits = <<>> THEN acc
    ELSE DecimalValue(Tail(digits), acc * 10 + DigitValue(Head(digits)))

\* str::parse::<u64>: an optional '+', then one or more decimal digits that
\* fit 64 bits; anything else is an error
ParseU64(s) ==
    LET digits == IF s # <<>> /\ Head(s) = "+" THEN Tail(s) ELSE s
    IN  IF digits = <<>> THEN Err("Empty")
        ELSE IF \E i \in 1..Len(digits) : ~IsDigit(digits[i]) THEN Err("InvalidDigit")
        ELSE IF OverflowsU64(digits) THEN Err("PosOverflow")
        ELSE Ok(DecimalValue(digits, 0))

\* s split at every "/"
RECURSIVE SplitSlash(_, _, _)
SplitSlash(s, cur, acc) ==
    IF s = <<>> THEN Append(acc, cur)
    ELSE IF Head(s) = "/" THEN SplitSlash(Tail(s), <<>>, Append(acc, cur))
    ELSE SplitSlash(Tail(s), Append(cur, Head(s)), acc)

\* Path::components on Unix, without the root: empty components and "."
\* components are dropped, except a "." that starts a relative path
PathComponents(path) ==
    LET parts == SplitSlash(path, <<>>, <<>>)
        keep == {i \in 1..Len(parts) :
                    /\ parts[i] # <<>>
                    /\ (parts[i] = <<".">> => i = 1)}
        Pick[n \in 0..Len(parts)] ==
            IF n = 0 THEN <<>>
            ELSE IF n \in keep THEN Append(Pick[n - 1], parts[n])
            ELSE Pick[n - 1]
    IN  Pick[Len(parts)]

\* Path::file_name: the last component when it is a normal one
FileName(path) ==
    LET comps == PathComponents(path)
    IN  IF comps = <<>> THEN None
        ELSE LET last == comps[Len(comps)]
             IN  IF last = <<".">> \/ last = <<".", ".">> THEN None
                 ELSE Some(last)

----------------------------------------------------------------------------
(* Configuration (DiscordConfig) *)

DistinctLabels ==
    [header |-> "Tweet", text |-> "Text", reply |-> "Reply",
     quote |-> "Quote", url |-> "URL"]

\* nothing in the program keeps two labels of the configuration apart
EmbedConfigs ==
    {DistinctLabels,
     [DistinctLabels EXCEPT !.text = "URL"],
     [DistinctLabels EXCEPT !.reply = "URL"],
     [DistinctLabels EXCEPT !.quote = "URL"]}

PlaintextConfigs ==
    {[reply_prefix |-> <<"R", ":">>, reply_postfix |-> <<"r">>,
      quote_prefix |-> <<"Q", ":">>, quote_postfix |-> <<"q">>]}

ChannelIds == {600, 601}

Configs ==
    [channel_id : {600},
     tweet_replies : BOOLEAN,
     tweet_as_user : BOOLEAN,
     embed : EmbedConfigs,
     plaintext : PlaintextConfigs]

----------------------------------------------------------------------------
(* The origin platform: accounts, tweets, stream messages *)

\* the account config.twitter.follow names, as user::show returns it
WatchedUsers == {[id |-> 42, screen_name |-> <<"a", "c", "c", "t">>]}

\* the account the credentials belong to: the author of what the program tweets
PostingUsers == {[id |-> 43, screen_name |-> <<"b", "o", "t">>]}

OtherAuthorIds == {9}

ParentIds == {55}

ParentTexts == {<<"u", "p">>}

QuotedTexts == {<<"q", "t">>}

\* the fields of egg_mode's Tweet the program reads; user is present on every
\* tweet the stream and the API return, so its unwrap is not a step
Tweet(id, author, text, parent, quoted) ==
    [id |-> id, user |-> [id |-> author], text |-> text,
     in_reply_to_status_id |-> parent, quoted_status |-> quoted]

\* tweets of the watched account: every combination of being a reply and
\* carrying a quoted tweet, each with an id of its own
WatchedTweets(u) ==
    {Tweet(100 + (IF p.some THEN 1 ELSE 0) + (IF q.some THEN 2 ELSE 0),
           u.id,
           IF q.some THEN <<"a", "/", "5">> ELSE <<"h", "i">>,
           p, q) :
        p \in {None} \cup {Some(i) : i \in ParentIds},
        q \in {None} \cup {Some([text |-> t]) : t \in QuotedTexts}}

\* tweets the id filter lets through although another account wrote them:
\* a retweet of, or a reply to, the watched account
ForeignTweets ==
    {Tweet(7, a, <<"r", "t">>, Some(i), None) :
        a \in OtherAuthorIds, i \in ParentIds}

\* StreamMessage: a tweet, or any of the other variants (Ping, Delete, ...)
StreamMessages(u) ==
    {[type |-> "Tweet", tweet |-> t] : t \in WatchedTweets(u) \cup ForeignTweets}
        \cup {[type |-> "Other"]}

----------------------------------------------------------------------------
(* Content Formatter *)

HttpsTwitterCom ==
    <<"h", "t", "t", "p", "s", ":", "/", "/",
      "t", "w", "i", "t", "t", "e", "r", ".", "c", "o", "m", "/">>

SlashStatusSlash == <<"/", "s", "t", "a", "t", "u", "s", "/">>

\* the two arguments of the format string swapped
TweetUrlSwapped(screen_name, id) ==
    HttpsTwitterCom \o FormatU64(id) \o SlashStatusSlash \o screen_name

\* format!("https://twitter.com/{}/status/{}", screen_name, id)
TweetUrl(screen_name, id) ==
    HttpsTwitterCom \o screen_name \o SlashStatusSlash \o FormatU64(id)

Newline == <<"\n">>

\* CreateMessage as send_message hands it to the closure
EmptyMessage == [content |-> <<>>, embeds |-> <<>>]

Field(name, value) == [name |-> name, value |-> value, inline |-> FALSE]

\* prefix, "\n", "> " excerpt, "\n", postfix, "\n"
PlaintextBlock(prefix, excerpt, postfix) ==
    prefix \o Newline \o <<">", " ">> \o excerpt \o Newline \o postfix \o Newline

\* the quote block written before the reply block
create_plaintext_message_quote_first(m, cfg, tweet, reply) ==
    LET c0 == <<>>
        c1 == IF tweet.quoted_status.some
              THEN c0 \o PlaintextBlock(cfg.plaintext.quote_prefix,
                                        tweet.quoted_status.val.text,
                                        cfg.plaintext.quote_postfix)
              ELSE c0
        c2 == IF reply.some
              THEN c1 \o PlaintextBlock(cfg.plaintext.reply_prefix, reply.val,
                                        cfg.plaintext.reply_postfix)
              ELSE c1
    IN  [m EXCEPT !.content = c2 \o tweet.text]

create_plaintext_message(m, cfg, tweet, reply) ==
    LET c0 == <<>>
        c1 == IF reply.some
              THEN c0 \o PlaintextBlock(cfg.plaintext.reply_prefix, reply.val,
                                        cfg.plaintext.reply_postfix)
              ELSE c0
        c2 == IF tweet.quoted_status.some
              THEN c1 \o PlaintextBlock(cfg.plaintext.quote_prefix,
                                        tweet.quoted_status.val.text,
                                        cfg.plaintext.quote_postfix)
              ELSE c1
    IN  [m EXCEPT !.content = c2 \o tweet.text]

\* the quote field added before the reply field
create_embeded_message_quote_first(m, cfg, tweet, tweet_url, reply) ==
    LET f0 == <<Field(cfg.embed.text, tweet.text)>>
        f1 == IF tweet.quoted_status.some
              THEN Append(f0, Field(cfg.embed.quote, tweet.quoted_status.val.text))
              ELSE f0
        f2 == IF reply.some
              THEN Append(f1, Field(cfg.embed.reply, reply.val))
              ELSE f1
        f3 == Append(f2, Field(cfg.embed.url, tweet_url))
    IN  [m EXCEPT !.embeds = Append(@, [title |-> cfg.embed.header, fields |-> f3])]

create_embeded_message(m, cfg, tweet, tweet_url, reply) ==
    LET f0 == <<Field(cfg.embed.text, tweet.text)>>
        f1 == IF reply.some
              THEN Append(f0, Field(cfg.embed.reply, reply.val))
              ELSE f0
        f2 == IF tweet.quoted_status.some
              THEN Append(f1, Field(cfg.embed.quote, tweet.quoted_status.val.text))
              ELSE f1
        f3 == Append(f2, Field(cfg.embed.url, tweet_url))
    IN  [m EXCEPT !.embeds = Append(@, [title |-> cfg.embed.header, fields |-> f3])]

\* the URL made from the parent's id when the tweet is a reply
BuildMessageParentUrl(cfg, watched, tweet, reply) ==
    IF cfg.tweet_as_user
    THEN create_plaintext_message(EmptyMessage, cfg, tweet, reply)
    ELSE create_embeded_message(EmptyMessage, cfg, tweet,
                                TweetUrl(watched.screen_name,
                                         IF tweet.in_reply_to_status_id.some
                                         THEN tweet.in_reply_to_status_id.val
                                         ELSE tweet.id),
                                reply)

\* tweet_as_user ignored: every tweet is sent as an embed with its URL
BuildMessageAlwaysEmbedded(cfg, watched, tweet, reply) ==
    create_embeded_message(EmptyMessage, cfg, tweet,
                           TweetUrl(watched.screen_name, tweet.id), reply)

\* the closure handle_message passes to send_message
BuildMessage(cfg, watched, tweet, reply) ==
    IF cfg.tweet_as_user
    THEN create_plaintext_message(EmptyMessage, cfg, tweet, reply)
    ELSE create_embeded_message(EmptyMessage, cfg, tweet,
                                TweetUrl(watched.screen_name, tweet.id), reply)

----------------------------------------------------------------------------
(* Reply Correlator *)

\* every failure to read an id reported as NotFound
IdOfFieldValueNotFound(value) ==
    LET name == FileName(value)
    IN  IF name.some /\ ParseU64(name.val).ok THEN Ok(ParseU64(name.val).val)
        ELSE Err("NotFound")

\* the tweet id a field value ends in
IdOfFieldValue(value) ==
    LET name == FileName(value)
    IN  IF ~name.some THEN Err("InvalidInput")
        ELSE IF ParseU64(name.val).ok THEN Ok(ParseU64(name.val).val)
        ELSE Err("InvalidData")

\* a field named as the url label is passed over when no id can be read
\* from it
RECURSIVE ScanFieldsSkipMalformed(_, _)
ScanFieldsSkipMalformed(fields, url_label) ==
    IF fields = <<>> THEN None
    ELSE IF /\ Head(fields).name = url_label
            /\ IdOfFieldValue(Head(fields).value).ok
         THEN Some(IdOfFieldValue(Head(fields).value))
    ELSE ScanFieldsSkipMalformed(Tail(fields), url_label)

\* the inner loop: the first field named as the url label decides
RECURSIVE ScanFields(_, _)
ScanFields(fields, url_label) ==
    IF fields = <<>> THEN None
    ELSE IF Head(fields).name = url_label THEN Some(IdOfFieldValue(Head(fields).value))
    ELSE ScanFields(Tail(fields), url_label)

RECURSIVE tweet_id_from_embeds(_, _)
tweet_id_from_embeds(cfg, embeds) ==
    IF embeds = <<>> THEN Err("NotFound")
    ELSE LET found == ScanFields(Head(embeds).fields, cfg.embed.url)
         IN  IF found.some THEN found.val
             ELSE tweet_id_from_embeds(cfg, Tail(embeds))

----------------------------------------------------------------------------
(* State *)

Init ==
    /\ config \in Configs
    /\ mainPc = "load_config"
    /\ user = None
    /\ feed = <<>>
    /\ sup = <<>>
    /\ workers = {}
    /\ chat = <<>>
    /\ tasks = <<>>
    /\ published = <<>>

\* client.start() is being awaited: the gateway connection exists and the
\* runtime polls the tasks of the event handlers
Running == mainPc = "running"

Supervisors == 1..Len(sup)

\* the call of handle_message that stream() is awaiting, if any
WorkersOf(s) == {w \in workers : w.sup = s}

----------------------------------------------------------------------------
(* main *)

\* File::open and serde_yaml::from_reader, each unwrapped
LoadConfig ==
    /\ mainPc = "load_config"
    /\ \E ok \in BOOLEAN : mainPc' = IF ok THEN "resolve" ELSE "panic_config"
    /\ UNCHANGED <<config, user, feed, sup, workers, chat, tasks, published>>

\* the result of user::show not unwrapped
AfterResolveUnchecked(result) == "build_client"

\* where main continues with the result of user::show: it is unwrapped
AfterResolve(result) == IF result.ok THEN "build_client" ELSE "panic_resolve"

\* TwitterService::new, awaited while the arguments of event_handler are
\* evaluated: user::show(config.follow, token).await.unwrap()
ResolveAccount ==
    /\ mainPc = "resolve"
    /\ \E result \in {Ok(u) : u \in WatchedUsers} \cup {Err("twitter")} :
        /\ user' = IF result.ok THEN Some(result.val) ELSE None
        /\ mainPc' = AfterResolve(result)
    /\ UNCHANGED <<config, feed, sup, workers, chat, tasks, published>>

\* Client::builder(token).event_handler(handler).await.expect(..)
BuildClient ==
    /\ mainPc = "build_client"
    /\ \E ok \in BOOLEAN : mainPc' = IF ok THEN "start_client" ELSE "panic_client"
    /\ UNCHANGED <<config, user, feed, sup, workers, chat, tasks, published>>

\* client.start() begins: the gateway connection is opened and main awaits it
StartClient ==
    /\ mainPc = "start_client"
    /\ mainPc' = "running"
    /\ UNCHANGED <<config, user, feed, sup, workers, chat, tasks, published>>

\* client.start() returns an error: it is logged, main returns and the
\* runtime drops every task
ClientError ==
    /\ mainPc = "running"
    /\ mainPc' = "exited"
    /\ UNCHANGED <<config, user, feed, sup, workers, chat, tasks, published>>

----------------------------------------------------------------------------
(* The origin platform emits on the filtered stream *)

Emit ==
    /\ Running
    /\ Len(feed) < MaxFeed
    /\ WithinTraffic(Len(feed) + 1, Len(sup))
    /\ \E m \in StreamMessages(user.val) : feed' = Append(feed, m)
    /\ UNCHANGED <<config, mainPc, user, sup, workers, chat, tasks, published>>

----------------------------------------------------------------------------
(* Stream Supervisor: Handler::ready and TwitterService::stream *)

\* Handler::ready: every Ready event of the gateway calls stream(), which
\* opens a subscription of its own; it receives what is emitted from then on
Ready ==
    /\ Running
    /\ Len(sup) < MaxReady
    /\ WithinTraffic(Len(feed), Len(sup) + 1)
    /\ sup' = Append(sup, [pc |-> "loop", from |-> Len(feed), pos |-> Len(feed),
                            ended |-> FALSE])
    /\ UNCHANGED <<config, mainPc, user, feed, workers, chat, tasks, published>>

\* handle_message spawned instead of awaited: the loop reads on at once
AtTryNextSpawning(s) == sup[s].pc = "loop"

\* stream() is at stream.try_next().await: handle_message is awaited inside
\* the loop, so the next read starts only when it has returned
AtTryNext(s) ==
    /\ sup[s].pc = "loop"
    /\ WorkersOf(s) = {}

\* the filter left out: whatever the subscription delivers is relayed
IsFilteredNever(tweet, watched) == FALSE

\* tweeting_user.id != self.user.id: the early return of handle_message
IsFiltered(tweet, watched) == tweet.user.id # watched.id

\* handle_message up to its first await
StartHandling(s, idx, tweet) ==
    IF IsFiltered(tweet, user.val) THEN {}
    ELSE {[sup |-> s, idx |-> idx,
           pc |-> IF tweet.in_reply_to_status_id.some THEN "fetch" ELSE "send",
           reply |-> None]}

\* while let Ok(Some(m)): the end of the stream ends the loop as well
AfterReadItemsOnly(read) ==
    IF read.ok /\ read.val.some THEN "loop" ELSE "returned"

\* while let Ok(m) = stream.try_next().await: the loop goes on after every
\* Ok, with an item or without, and ends on Err
AfterRead(read) == IF read.ok THEN "loop" ELSE "returned"

\* try_next() yields Ok(Some(message))
StreamReadItem(s) ==
    /\ Running
    /\ AtTryNext(s)
    /\ ~sup[s].ended
    /\ sup[s].pos < Len(feed)
    /\ LET idx == sup[s].pos + 1
           m == feed[idx]
       IN  /\ sup' = [sup EXCEPT ![s].pos = idx, ![s].pc = AfterRead(Ok(Some(m)))]
           /\ workers' = workers \cup
                (IF m.type = "Tweet" THEN StartHandling(s, idx, m.tweet) ELSE {})
    /\ UNCHANGED <<config, mainPc, user, feed, chat, tasks, published>>

\* try_next() yields Ok(None): the platform closed the stream; the while let
\* goes on.  What the library yields on the polls after that, Ok(None) again
\* or Err, is not in the source: both are left open.
StreamReadEnd(s) ==
    /\ Running
    /\ AtTryNext(s)
    /\ sup' = [sup EXCEPT ![s].ended = TRUE, ![s].pc = AfterRead(Ok(None))]
    /\ UNCHANGED <<config, mainPc, user, feed, workers, chat, tasks, published>>

\* try_next() yields Err: the while let ends, stream() and ready() return
StreamReadErr(s) ==
    /\ Running
    /\ AtTryNext(s)
    /\ sup' = [sup EXCEPT ![s].pc = AfterRead(Err("stream"))]
    /\ UNCHANGED <<config, mainPc, user, feed, workers, chat, tasks, published>>

----------------------------------------------------------------------------
(* Dispatch: the rest of handle_message *)

\* what handle_message does with the result of tweet::show(reply_id): it is
\* unwrapped, so an error panics the task that runs ready()
AfterFetch(w, result) ==
    IF result.ok
    THEN [panic |-> FALSE,
          next |-> {[w EXCEPT !.pc = "send", !.reply = Some(result.val.text)]}]
    ELSE [panic |-> TRUE, next |-> {}]

\* egg_mode::tweet::show(reply_id, token).await completes
FetchParent(w) ==
    /\ Running
    /\ w \in workers
    /\ w.pc = "fetch"
    /\ \E result \in {Ok([text |-> t]) : t \in ParentTexts} \cup {Err("twitter")} :
        LET after == AfterFetch(w, result)
        IN  /\ workers' = (workers \ {w}) \cup after.next
            /\ sup' = IF after.panic
                      THEN [sup EXCEPT ![w.sup].pc = "panicked"]
                      ELSE sup
    /\ UNCHANGED <<config, mainPc, user, feed, chat, tasks, published>>

\* a failed send tried again
AfterSendRetrying(w, ok) == IF ok THEN {} ELSE {w}

\* what handle_message does once send_message has completed: it logs the
\* result and returns
AfterSend(w, ok) == {}

\* ChannelId(config.channel_id).send_message(..).await completes
SendMessage(w) ==
    /\ Running
    /\ w \in workers
    /\ w.pc = "send"
    /\ \E ok \in BOOLEAN :
        /\ chat' = Append(chat,
                [kind |-> "tweet", sup |-> w.sup, idx |-> w.idx,
                 tweet |-> feed[w.idx].tweet, reply |-> w.reply,
                 channel |-> config.channel_id,
                 message |-> BuildMessage(config, user.val, feed[w.idx].tweet, w.reply),
                 ok |-> ok])
        /\ workers' = (workers \ {w}) \cup AfterSend(w, ok)
    /\ UNCHANGED <<config, mainPc, user, feed, sup, tasks, published>>

----------------------------------------------------------------------------
(* Discord: users and the messages the gateway dispatches *)

\* the user the bot token belongs to; ctx.cache.current_user_id() is its id
BotUser == [id |-> 500]

OtherDiscordUsers == {[id |-> 501]}

MessageContents == {<<"y", "o">>}

DiscordMessage(author, m) ==
    [author |-> author, content |-> m.content, embeds |-> m.embeds]

\* a field whose value does not end in a tweet id
MalformedEmbed(cfg) ==
    [title |-> cfg.embed.header,
     fields |-> <<Field(cfg.embed.url,
                        <<"h", "t", "t", "p", "s", ":", "/", "/", "x", "/",
                          "s", "t", "a", "t", "u", "s", "/", "a", "b", "c">>)>>]

\* what a message can be a reply to: a tweet the bot relayed under this
\* configuration, the same rendering posted by somebody else, a message of
\* the bot whose url field is malformed
ReferencedMessages(cfg, watched) ==
    {DiscordMessage(BotUser,
        BuildMessage(cfg, watched, t,
                     IF t.in_reply_to_status_id.some THEN Some(x) ELSE None)) :
        t \in WatchedTweets(watched), x \in ParentTexts}
    \cup {DiscordMessage(a,
            create_embeded_message(EmptyMessage, cfg, t,
                                   TweetUrl(watched.screen_name, t.id), None)) :
            a \in OtherDiscordUsers,
            t \in {x \in WatchedTweets(watched) :
                    ~x.in_reply_to_status_id.some /\ ~x.quoted_status.some}}
    \cup {DiscordMessage(BotUser, [content |-> <<>>, embeds |-> <<MalformedEmbed(cfg)>>])}

Messages(cfg, watched) ==
    [content : MessageContents,
     channel_id : ChannelIds,
     referenced_message :
        {None} \cup {Some(r) : r \in ReferencedMessages(cfg, watched)}]

----------------------------------------------------------------------------
(* Reply-back: Handler::message and Handler::reply_to_tweet *)

\* the author of the referenced message not looked at
IsOwnMessageAny(reply, current_user_id) == TRUE

\* reply.author.id != current_user_id: the early return of reply_to_tweet
IsOwnMessage(reply, current_user_id) == reply.author.id = current_user_id

\* DraftTweet::new(format!("@{} {}", screen_name, content)).in_reply_to(id)
Draft(watched, content, tweet_id) ==
    [text |-> <<"@">> \o watched.screen_name \o <<" ">> \o content,
     in_reply_to |-> tweet_id]

\* message() and reply_to_tweet() up to the if let: what
\* tweet_id_from_embeds returns, if the message gets as far as its call
FoundFor(cfg, msg) ==
    IF ~cfg.tweet_replies THEN None
    ELSE IF ~msg.referenced_message.some THEN None
    ELSE LET reply == msg.referenced_message.val
         IN  IF ~IsOwnMessage(reply, BotUser.id) THEN None
             ELSE Some(tweet_id_from_embeds(cfg, reply.embeds))

\* if let Ok(tweet_id) = ..: the draft to send, if there is one
DraftFor(cfg, watched, msg) ==
    LET found == FoundFor(cfg, msg)
    IN  IF found.some /\ found.val.ok
        THEN Some(Draft(watched, msg.content, found.val.val))
        ELSE None

\* the gateway dispatches a message: Handler::message runs to its first
\* await on Twitter, or returns
MessageReceived ==
    /\ Running
    /\ Len(tasks) < MaxMsgs
    /\ \E msg \in Messages(config, user.val) :
        LET draft == DraftFor(config, user.val, msg)
        IN  tasks' = Append(tasks,
                [msg |-> msg, found |-> FoundFor(config, msg), draft |-> draft,
                 say |-> None,
                 pc |-> IF draft.some THEN "publish" ELSE "done"])
    /\ UNCHANGED <<config, mainPc, user, feed, sup, workers, chat, published>>

PostetReply ==
    <<"P", "o", "s", "t", "e", "t", " ", "r", "e", "p", "l", "y", ":", " ">>

\* the channel told of a failure as well
ConfirmationOrFailure(result) ==
    IF result.ok
    THEN Some(PostetReply \o TweetUrl(result.val.user.screen_name, result.val.id))
    ELSE Some(<<"f", "a", "i", "l", "e", "d">>)

\* the match on the result of draft.send(): what is said to the channel
Confirmation(result) ==
    IF result.ok
    THEN Some(PostetReply \o TweetUrl(result.val.user.screen_name, result.val.id))
    ELSE None

\* the tweet statuses/update answers with: a new id, the posting account
PostedTweets(k, draft) ==
    {[id |-> 900 + k, user |-> pu, text |-> draft.text,
      in_reply_to_status_id |-> Some(draft.in_reply_to)] : pu \in PostingUsers}

\* draft.send(token).await completes
PublishDone(k) ==
    /\ Running
    /\ tasks[k].pc = "publish"
    /\ \E result \in {Ok(t) : t \in PostedTweets(k, tasks[k].draft.val)}
                        \cup {Err("twitter")} :
        /\ published' = Append(published,
                [task |-> k, draft |-> tasks[k].draft.val, result |-> result])
        /\ tasks' = [tasks EXCEPT
                ![k].say = Confirmation(result),
                ![k].pc = IF Confirmation(result).some THEN "say" ELSE "done"]
    /\ UNCHANGED <<config, mainPc, user, feed, sup, workers, chat>>

\* the channel the confirmation goes to
SayChannel(cfg, msg) == msg.channel_id

\* msg.channel_id.say(ctx, ..).await completes; its result is dropped
SayDone(k) ==
    /\ Running
    /\ tasks[k].pc = "say"
    /\ \E ok \in BOOLEAN :
        chat' = Append(chat,
            [kind |-> "confirm", task |-> k,
             channel |-> SayChannel(config, tasks[k].msg),
             message |-> [content |-> tasks[k].say.val, embeds |-> <<>>],
             ok |-> ok])
    /\ tasks' = [tasks EXCEPT ![k].pc = "done"]
    /\ UNCHANGED <<config, mainPc, user, feed, sup, workers, published>>

----------------------------------------------------------------------------
(* The relay: startup, the stream and the dispatch of tweets *)

Startup ==
    \/ LoadConfig
    \/ ResolveAccount
    \/ BuildClient
    \/ StartClient
    \/ ClientError

Next ==
    \/ Startup
    \/ Emit
    \/ Ready
    \/ \E s \in Supervisors : StreamReadItem(s)
    \/ \E s \in Supervisors : StreamReadEnd(s)
    \/ \E s \in Supervisors : StreamReadErr(s)
    \/ \E w \in workers : FetchParent(w)
    \/ \E w \in workers : SendMessage(w)

Spec == Init /\ [][Next]_vars

----------------------------------------------------------------------------
(* The reply-back path: startup and the messages of the channel.  It shares *)
(* with the relay only what neither writes (config, user) and the channel   *)
(* both append to.                                                          *)

NextReply ==
    \/ Startup
    \/ MessageReceived
    \/ \E k \in 1..Len(tasks) : PublishDone(k)
    \/ \E k \in 1..Len(tasks) : SayDone(k)

ReplySpec == Init /\ [][NextReply]_vars

----------------------------------------------------------------------------
(* The correlator on its own: tweet_id_from_embeds is a function of the     *)
(* url label and of the embeds it is given.  Here tasks holds its calls:    *)
(* the embeds passed and the result returned.                               *)

\* a value that ends in a tweet id
WellFormedValue ==
    <<"h", "t", "t", "p", "s", ":", "/", "/", "x", "/",
      "s", "t", "a", "t", "u", "s", "/", "7">>

\* values no id can be read from: the last component is not a number, or
\* there is no last component
MalformedValues ==
    {<<"h", "t", "t", "p", "s", ":", "/", "/", "x", "/",
       "s", "t", "a", "t", "u", "s", "/", "a", "b", "c">>,
     <<".", ".">>}

\* the fields an embed of a referenced message can carry
EmbedFields(cfg) ==
    {Field(cfg.embed.url, v) : v \in {WellFormedValue} \cup MalformedValues}
        \cup {Field(cfg.embed.text, <<"h", "i">>)}

SeqsUpTo(S, n) == UNION {[1..k -> S] : k \in 0..n}

\* the embeds of a referenced message: msg.embeds, a Vec<Embed>
EmbedSeqs(cfg) ==
    SeqsUpTo({[title |-> cfg.embed.header, fields |-> f] :
                f \in SeqsUpTo(EmbedFields(cfg), MaxEmbedFields)},
             MaxEmbedFields)

\* the client is running under a configuration with replies enabled
InitCorrelator ==
    /\ config \in {c \in Configs : /\ c.tweet_replies
                                   /\ ~c.tweet_as_user
                                   /\ c.embed = DistinctLabels}
    /\ mainPc = "running"
    /\ user \in {Some(u) : u \in WatchedUsers}
    /\ feed = <<>>
    /\ sup = <<>>
    /\ workers = {}
    /\ chat = <<>>
    /\ tasks = <<>>
    /\ published = <<>>

\* reply_to_tweet calls Self::tweet_id_from_embeds(&self.config, &reply.embeds)
Correlate ==
    /\ tasks = <<>>
    /\ \E embeds \in EmbedSeqs(config) :
        tasks' = <<[embeds |-> embeds,
                    found |-> tweet_id_from_embeds(config, embeds)]>>
    /\ UNCHANGED <<config, mainPc, user, feed, sup, workers, chat, published>>

NextCorrelator == Correlate

CorrelatorSpec == InitCorrelator /\ [][NextCorrelator]_vars

----------------------------------------------------------------------------
(* Properties of the relay, checked under Spec *)

TweetEntries == {i \in 1..Len(chat) : chat[i].kind = "tweet"}

\* no field that can come before the url field carries its label
UrlLabelApart ==
    config.embed.url \notin {config.embed.text, config.embed.reply, config.embed.quote}

\* the stream messages supervisor s has received
ReceivedBy(s) == (sup[s].from + 1)..sup[s].pos

\* C1: a tweet whose author is not the watched account never gets as far as
\* a parent fetch or a send to the channel: every call of handle_message
\* that is past the filter, and every send attempt, is for a tweet of the
\* watched account.
FilterCorrectness ==
    /\ \A w \in workers : feed[w.idx].tweet.user.id = user.val.id
    /\ \A i \in TweetEntries : chat[i].tweet.user.id = user.val.id

\* C1 witness: a supervisor has received a tweet of another account and is
\* back at the stream, nothing fetched or sent for it
ForeignTweetDiscarded ==
    \E s \in Supervisors : \E i \in ReceivedBy(s) :
        /\ feed[i].type = "Tweet"
        /\ feed[i].tweet.user.id # user.val.id
        /\ feed[i].tweet.in_reply_to_status_id.some
        /\ AtTryNext(s)
        /\ sup[s].pos = i

\* C2: a failed parent fetch is absorbed: whenever the fetch of a tweet's
\* parent completes, handle_message goes on to send that tweet and the
\* supervisor stays in its loop.
ParentFetchDegrades ==
    [][\A w \in workers :
        (w.pc = "fetch" /\ w \notin workers') =>
            /\ sup'[w.sup].pc = "loop"
            /\ \E v \in workers' : v.sup = w.sup /\ v.idx = w.idx /\ v.pc = "send"]_vars

StreamLossIsFatal ==
    \A s \in Supervisors : sup[s].pc = "returned" => ~Running

\* a failed send attempt is the only attempt of its supervisor for its
\* stream message
NoSecondAttempt ==
    \A i \in TweetEntries : \A j \in TweetEntries :
        (~chat[i].ok /\ chat[j].sup = chat[i].sup /\ chat[j].idx = chat[i].idx)
            => i = j

\* C5: a failed send is absorbed without retry.  For each supervisor and
\* stream message, a failed send attempt is the only attempt ever made, and
\* the step that fails leaves the supervisor at the stream, handling nothing.
DeliveryFailureAbsorbed ==
    /\ []NoSecondAttempt
    /\ [][\A w \in workers :
            (/\ Len(chat') = Len(chat) + 1
             /\ chat'[Len(chat')].kind = "tweet"
             /\ chat'[Len(chat')].sup = w.sup
             /\ ~chat'[Len(chat')].ok)
            => /\ chat'[Len(chat')].idx = w.idx
               /\ sup'[w.sup].pc = "loop"
               /\ {v \in workers' : v.sup = w.sup} = {}]_vars

\* C5 witness: a send failed and the supervisor has since handled a later
\* stream message to the end
FailedSendThenNext ==
    \E i \in TweetEntries : \E j \in TweetEntries :
        /\ ~chat[i].ok
        /\ chat[j].sup = chat[i].sup
        /\ chat[j].idx > chat[i].idx
        /\ i < j

\* C9: the stream is opened and tweets are sent only with the watched
\* account resolved and the client started; when the account cannot be
\* resolved the process has panicked with no client started, no stream
\* opened and nothing sent.
StartupOrdering ==
    /\ (sup # <<>> \/ workers # {} \/ chat # <<>>) =>
            user.some /\ mainPc \in {"running", "exited"}
    /\ mainPc \in {"build_client", "start_client", "running", "exited",
                   "panic_client"} => user.some
    /\ mainPc = "panic_resolve" =>
            ~user.some /\ sup = <<>> /\ workers = {} /\ chat = <<>> /\ tasks = <<>>
    /\ chat # <<>> => sup # <<>>

\* C9 witness: the account was not resolved
ResolutionFailed == mainPc = "panic_resolve"

\* C10: a structured message has one embed, titled with the configured
\* header, whose fields are text, then reply only if there is a parent
\* excerpt, then quote only if there is a quoted tweet, then url.
StructuredRendering ==
    \A i \in TweetEntries :
        ~config.tweet_as_user =>
            LET t == chat[i].tweet
                r == chat[i].reply
                q == t.quoted_status
                m == chat[i].message
                f == m.embeds[1].fields
                names == [n \in 1..Len(f) |-> f[n].name]
                values == [n \in 1..Len(f) |-> f[n].value]
                url == f[Len(f)].value
            IN  /\ Len(m.embeds) = 1
                /\ m.embeds[1].title = config.embed.header
                /\ ~r.some /\ ~q.some =>
                        /\ names = <<config.embed.text, config.embed.url>>
                        /\ values = <<t.text, url>>
                /\ r.some /\ ~q.some =>
                        /\ names = <<config.embed.text, config.embed.reply,
                                     config.embed.url>>
                        /\ values = <<t.text, r.val, url>>
                /\ ~r.some /\ q.some =>
                        /\ names = <<config.embed.text, config.embed.quote,
                                     config.embed.url>>
                        /\ values = <<t.text, q.val.text, url>>
                /\ r.some /\ q.some =>
                        /\ names = <<config.embed.text, config.embed.reply,
                                     config.embed.quote, config.embed.url>>
                        /\ values = <<t.text, r.val, q.val.text, url>>
                /\ url = TweetUrl(user.val.screen_name, t.id)

\* C10 witness: structured messages were sent for a tweet with a parent
\* excerpt and a quoted tweet and for a tweet with neither
BothAndNeitherRendered ==
    /\ ~config.tweet_as_user
    /\ \E i \in TweetEntries : chat[i].reply.some /\ chat[i].tweet.quoted_status.some
    /\ \E i \in TweetEntries : ~chat[i].reply.some /\ ~chat[i].tweet.quoted_status.some

\* text s has sub as a contiguous part
Contains(s, sub) ==
    \E n \in 0..(Len(s) - Len(sub)) : SubSeq(s, n + 1, n + Len(sub)) = sub

\* C11: a plaintext message has no embed; its content is the reply block
\* (reply_prefix, newline, "> " and the parent excerpt, newline,
\* reply_postfix, newline) only if there is a parent excerpt, then the quote
\* block of the same shape only if there is a quoted tweet, then the tweet's
\* text and nothing after it; the tweet's URL is no part of it.
PlaintextRendering ==
    \A i \in TweetEntries :
        config.tweet_as_user =>
            LET t == chat[i].tweet
                r == chat[i].reply
                q == t.quoted_status
                m == chat[i].message
                p == config.plaintext
                replyBlock ==
                    IF r.some
                    THEN p.reply_prefix \o <<"\n", ">", " ">> \o r.val
                            \o <<"\n">> \o p.reply_postfix \o <<"\n">>
                    ELSE <<>>
                quoteBlock ==
                    IF q.some
                    THEN p.quote_prefix \o <<"\n", ">", " ">> \o q.val.text
                            \o <<"\n">> \o p.quote_postfix \o <<"\n">>
                    ELSE <<>>
            IN  /\ m.embeds = <<>>
                /\ m.content = replyBlock \o quoteBlock \o t.text
                /\ ~Contains(m.content, TweetUrl(user.val.screen_name, t.id))
                /\ (r = Some(<<"u", "p">>) /\ ~q.some /\ t.text = <<"h", "i">>) =>
                        m.content = <<"R", ":", "\n", ">", " ", "u", "p", "\n",
                                      "r", "\n", "h", "i">>

\* C11 witness: plaintext messages were sent for a tweet with a parent
\* excerpt and a quoted tweet and for a tweet with a parent excerpt only
PlaintextBothAndReplyOnly ==
    /\ config.tweet_as_user
    /\ \E i \in TweetEntries : chat[i].reply.some /\ chat[i].tweet.quoted_status.some
    /\ \E i \in TweetEntries : chat[i].reply.some /\ ~chat[i].tweet.quoted_status.some

\* the fields of message m named as the url label: embed and position
UrlFieldsOf(m) ==
    UNION {{<<e, n>> : n \in {n \in 1..Len(m.embeds[e].fields) :
                                m.embeds[e].fields[n].name = config.embed.url}} :
           e \in 1..Len(m.embeds)}

\* the message sent for tweet 100 of "acct", which has neither parent nor
\* quote: the header as title, then the text field and the url field
DeliveredAsExample(entry) ==
    (/\ entry.tweet.id = 100
     /\ user.val.screen_name = <<"a", "c", "c", "t">>)
    => /\ entry.message.content = <<>>
       /\ entry.message.embeds =
            <<[title |-> config.embed.header,
               fields |->
                <<[name |-> config.embed.text, value |-> entry.tweet.text,
                   inline |-> FALSE],
                  [name |-> config.embed.url,
                   value |-> <<"h", "t", "t", "p", "s", ":", "/", "/",
                               "t", "w", "i", "t", "t", "e", "r", ".",
                               "c", "o", "m", "/", "a", "c", "c", "t", "/",
                               "s", "t", "a", "t", "u", "s", "/",
                               "1", "0", "0">>,
                   inline |-> FALSE]>>]>>

\* C12 as stated: every structured message sent for a tweet has exactly one
\* field named as the url label, and its value is the URL of that tweet
\* under the watched account's handle; tweet 100 of "acct" is sent as the
\* header, the text field and the url field.
CanonicalUrl ==
    \A i \in TweetEntries :
        ~config.tweet_as_user =>
            /\ Cardinality(UrlFieldsOf(chat[i].message)) = 1
            /\ \A f \in UrlFieldsOf(chat[i].message) :
                    chat[i].message.embeds[f[1]].fields[f[2]].value =
                        TweetUrl(user.val.screen_name, chat[i].tweet.id)
            /\ DeliveredAsExample(chat[i])

\* C12 amended: when the url label differs from the text, reply and quote
\* labels, every structured message sent for a tweet has exactly one field
\* named as the url label, and its value is the URL of that tweet under the
\* watched account's handle; whatever the labels, tweet 100 of "acct" is
\* sent as the header, the text field and the url field.
CanonicalUrlApart ==
    \A i \in TweetEntries :
        ~config.tweet_as_user =>
            /\ UrlLabelApart =>
                /\ Cardinality(UrlFieldsOf(chat[i].message)) = 1
                /\ \A f \in UrlFieldsOf(chat[i].message) :
                        chat[i].message.embeds[f[1]].fields[f[2]].value =
                            TweetUrl(user.val.screen_name, chat[i].tweet.id)
            /\ DeliveredAsExample(chat[i])

\* C12 witness: with labels apart, structured messages were sent for tweet
\* 100 and for a tweet that is a reply
CanonicalUrlSent ==
    /\ ~config.tweet_as_user
    /\ UrlLabelApart
    /\ \E i \in TweetEntries : chat[i].tweet.id = 100
    /\ \E i \in TweetEntries : chat[i].tweet.in_reply_to_status_id.some

\* a supervisor that has read the end of its stream is back at try_next,
\* unless a later read failed
PollsAfterEnd ==
    \A s \in Supervisors :
        sup[s].ended => (sup[s].pc = "returned" \/ AtTryNext(s))

\* C16: the loop of stream() ends exactly on a failed read.  A read that
\* yields a stream message, a tweet or not, or the end of the stream leaves
\* the supervisor in its loop, and a stream message that is not a tweet
\* starts nothing; the step on which a supervisor returns reads no message
\* and no end of stream; after the end of the stream the supervisor is
\* polling again and has not returned unless a read failed.
LoopExitCondition ==
    /\ []PollsAfterEnd
    /\ [][\A s \in Supervisors :
            /\ (sup'[s].pos # sup[s].pos \/ sup'[s].ended # sup[s].ended) =>
                    sup'[s].pc = "loop"
            /\ (sup'[s].pos # sup[s].pos /\ feed[sup'[s].pos].type = "Other") =>
                    /\ workers' = workers
                    /\ chat' = chat
                    /\ AtTryNext(s)'
            /\ (sup[s].pc = "loop" /\ sup'[s].pc = "returned") =>
                    /\ AtTryNext(s)
                    /\ sup'[s].pos = sup[s].pos
                    /\ sup'[s].ended = sup[s].ended
                    /\ workers' = workers
            /\ sup[s].pc = "returned" => sup'[s].pc = "returned"]_vars

\* C16 witness: a supervisor received a stream message that is not a tweet,
\* then the end of the stream, and is at try_next again
StillPollingAfterEnd ==
    \E s \in Supervisors :
        /\ sup[s].ended
        /\ AtTryNext(s)
        /\ \E i \in ReceivedBy(s) : feed[i].type = "Other"

\* the send attempts of supervisor s, as positions in the channel's history
AttemptsOf(s) == {i \in TweetEntries : chat[i].sup = s}

\* C17: a supervisor handles at most one tweet at a time and has read
\* nothing after the tweet it is handling; its send attempts are made in
\* the order it received the tweets: each attempt is for a later stream
\* message than the attempt before, and every tweet of the watched account
\* received earlier has had its attempt.
SerialInOrder ==
    \A s \in Supervisors :
        /\ Cardinality(WorkersOf(s)) <= 1
        /\ \A w \in WorkersOf(s) : w.idx = sup[s].pos
        /\ \A i \in AttemptsOf(s) : \A j \in AttemptsOf(s) :
                i < j => chat[i].idx < chat[j].idx
        /\ \A j \in AttemptsOf(s) :
                \A n \in ReceivedBy(s) :
                    (/\ n < chat[j].idx
                     /\ feed[n].type = "Tweet"
                     /\ feed[n].tweet.user.id = user.val.id)
                    => \E i \in AttemptsOf(s) : i < j /\ chat[i].idx = n

\* C17 witness: a supervisor sent a tweet whose parent it had to fetch and
\* after it the tweet it received next
InOrderAfterFetch ==
    \E s \in Supervisors : \E i \in AttemptsOf(s) : \E j \in AttemptsOf(s) :
        /\ i < j
        /\ chat[i].reply.some
        /\ chat[j].idx = chat[i].idx + 1

\* C18: whatever the number of Ready events, at most one supervisor is in
\* its stream loop, and no stream message is delivered to the channel more
\* than once.
SingleSupervisor ==
    /\ Cardinality({s \in Supervisors : sup[s].pc = "loop"}) <= 1
    /\ \A i \in TweetEntries : \A j \in TweetEntries :
            (chat[i].ok /\ chat[j].ok /\ chat[i].idx = chat[j].idx) => i = j

----------------------------------------------------------------------------
(* Properties of the reply-back path, checked under ReplySpec *)

Tasks == 1..Len(tasks)

PublishesOf(k) == {j \in 1..Len(published) : published[j].task = k}

ConfirmsOf(k) == {i \in 1..Len(chat) : chat[i].kind = "confirm" /\ chat[i].task = k}

\* C6: a message leads to a publish (pending or made) or to a message in
\* the channel only if replies are enabled, it references a message, the bot
\* wrote that message, and the correlator returned an id for it; a
\* referenced message without embeds (NotFound) or with a malformed url
\* field never does.
ReplyBackGating ==
    \A k \in Tasks :
        LET msg == tasks[k].msg
            ref == msg.referenced_message
            acted == \/ tasks[k].pc # "done"
                     \/ PublishesOf(k) # {}
                     \/ ConfirmsOf(k) # {}
        IN  /\ acted =>
                /\ config.tweet_replies
                /\ ref.some
                /\ ref.val.author.id = BotUser.id
                /\ tasks[k].found.some
                /\ tasks[k].found.val.ok
            /\ (ref.some /\ ref.val.embeds = <<>>) => ~acted
            /\ (ref.some /\ ref.val.embeds = <<MalformedEmbed(config)>>) => ~acted

\* C6 witness: with replies enabled, a reply to somebody else's message that
\* carries a well-formed url field was handled and nothing was published
ForeignReplyIgnored ==
    \E k \in Tasks :
        LET ref == tasks[k].msg.referenced_message
        IN  /\ config.tweet_replies
            /\ ref.some
            /\ ref.val.author.id # BotUser.id
            /\ tweet_id_from_embeds(config, ref.val.embeds).ok
            /\ tasks[k].pc = "done"
            /\ PublishesOf(k) = {}

\* C7: every task publishes at most once.  After an accepted publish the
\* task says exactly one thing, "Postet reply: " and the URL of the new
\* tweet, to the channel its message came from; after a rejected one it
\* says nothing.  Nothing else is said to the channel.
ReplyBackOutcome ==
    /\ \A k \in Tasks :
        /\ Cardinality(PublishesOf(k)) <= 1
        /\ Cardinality(ConfirmsOf(k)) <= 1
        /\ \A j \in PublishesOf(k) :
            LET result == published[j].result
            IN  IF result.ok
                THEN /\ tasks[k].pc = "done" => ConfirmsOf(k) # {}
                     /\ \A i \in ConfirmsOf(k) :
                         /\ chat[i].channel = tasks[k].msg.channel_id
                         /\ chat[i].message.embeds = <<>>
                         /\ chat[i].message.content =
                                PostetReply \o HttpsTwitterCom
                                    \o result.val.user.screen_name
                                    \o SlashStatusSlash \o FormatU64(result.val.id)
                ELSE /\ tasks[k].pc = "done"
                     /\ ConfirmsOf(k) = {}
    /\ \A i \in 1..Len(chat) :
        \/ chat[i].kind = "tweet"
        \/ /\ chat[i].kind = "confirm"
           /\ \E j \in PublishesOf(chat[i].task) : published[j].result.ok

\* C7 witness: a publish was accepted and confirmed in the channel of the
\* reply, which is not the configured one
ConfirmedInReplyChannel ==
    \E k \in Tasks :
        /\ tasks[k].pc = "done"
        /\ tasks[k].msg.channel_id # config.channel_id
        /\ \E j \in PublishesOf(k) : published[j].result.ok
        /\ \E i \in ConfirmsOf(k) : chat[i].channel = tasks[k].msg.channel_id

\* the structured and the plaintext rendering of tweet t with excerpt r
StructuredOf(t, r) ==
    create_embeded_message(EmptyMessage, config, t,
                           TweetUrl(user.val.screen_name, t.id), r)

PlaintextOf(t, r) == create_plaintext_message(EmptyMessage, config, t, r)

Excerpts == {None} \cup {Some(x) : x \in ParentTexts}

\* the correlator was run on the rendering m of tweet t and returned the id
\* of t, which the draft then answers
RecoversId(k, m, t) ==
    (/\ tasks[k].found.some
     /\ tasks[k].msg.referenced_message.val.embeds = m.embeds
     /\ tasks[k].msg.referenced_message.val.content = m.content)
    => /\ tasks[k].found.val = Ok(t.id)
       /\ tasks[k].draft = Some(Draft(user.val, tasks[k].msg.content, t.id))

\* the correlator was run on the rendering m and returned NotFound
FindsNothing(k, m) ==
    (/\ tasks[k].found.some
     /\ tasks[k].msg.referenced_message.val.embeds = m.embeds
     /\ tasks[k].msg.referenced_message.val.content = m.content)
    => /\ tasks[k].found.val = Err("NotFound")
       /\ tasks[k].draft = None

\* C8 as stated: for every tweet, the correlator run on its structured
\* rendering returns its id, and run on its plaintext rendering returns
\* NotFound.
CorrelatorRoundTrip ==
    \A k \in Tasks : \A t \in WatchedTweets(user.val) : \A r \in Excerpts :
        /\ RecoversId(k, StructuredOf(t, r), t)
        /\ FindsNothing(k, PlaintextOf(t, r))

\* C8 amended: when the url label differs from the text, reply and quote
\* labels, the correlator run on a tweet's structured rendering returns its
\* id; run on its plaintext rendering it returns NotFound, whatever the
\* labels.
CorrelatorRoundTripApart ==
    \A k \in Tasks : \A t \in WatchedTweets(user.val) : \A r \in Excerpts :
        /\ UrlLabelApart => RecoversId(k, StructuredOf(t, r), t)
        /\ FindsNothing(k, PlaintextOf(t, r))

\* C8 witness: one reply answered the structured rendering of a tweet with
\* parent excerpt and quote and its id was recovered
RoundTripDone ==
    /\ UrlLabelApart
    /\ \E k \in Tasks : \E t \in WatchedTweets(user.val) : \E r \in Excerpts :
        /\ r.some
        /\ t.quoted_status.some
        /\ tasks[k].msg.referenced_message.some
        /\ tasks[k].msg.referenced_message.val.embeds = StructuredOf(t, r).embeds
        /\ tasks[k].found = Some(Ok(t.id))
        /\ \E j \in PublishesOf(k) : published[j].draft.in_reply_to = t.id

\* the messages the process sends for the tweets of the watched account
\* under its configuration, as the channel shows them
DeliveredForPosts ==
    {DiscordMessage(BotUser, BuildMessage(config, user.val, t, r)) :
        t \in WatchedTweets(user.val), r \in Excerpts}

\* C15: in plaintext mode a reply to a message the process sent for a tweet
\* is never published, with replies enabled or not: no draft is made for
\* it, nothing is published and nothing is said to the channel.
PlaintextNoReplyBack ==
    config.tweet_as_user =>
        \A k \in Tasks :
            LET ref == tasks[k].msg.referenced_message
            IN  (ref.some /\ ref.val \in DeliveredForPosts) =>
                    /\ tasks[k].draft = None
                    /\ tasks[k].pc = "done"
                    /\ PublishesOf(k) = {}
                    /\ ConfirmsOf(k) = {}

\* C15 witness: in plaintext mode with replies enabled, a reply to the
\* message sent for a tweet was handled: the correlator found nothing
PlaintextReplyDropped ==
    /\ config.tweet_as_user
    /\ config.tweet_replies
    /\ \E k \in Tasks :
        /\ tasks[k].msg.referenced_message.some
        /\ tasks[k].msg.referenced_message.val \in DeliveredForPosts
        /\ tasks[k].found = Some(Err("NotFound"))
        /\ tasks[k].pc = "done"

----------------------------------------------------------------------------
(* Properties of the correlator, checked under CorrelatorSpec *)

\* position p comes before position q in the scan: embeds in order, fields
\* in order within an embed
ScannedBefore(p, q) == p[1] < q[1] \/ (p[1] = q[1] /\ p[2] < q[2])

\* the first field of m named as the url label, when there is one
FirstUrlField(m) ==
    CHOOSE p \in UrlFieldsOf(m) :
        \A q \in UrlFieldsOf(m) : q = p \/ ScannedBefore(p, q)

ValueAt(m, p) == m.embeds[p[1]].fields[p[2]].value

\* C13: the correlator returns NotFound exactly when no field of any embed
\* is named as the url label.  When the url-labelled field it reads has a
\* value whose last path segment is not an unsigned integer, it returns an
\* error other than NotFound and no id; for the single field
\* "https://x/status/abc" that error is InvalidData.
MalformedOutcome ==
    \A k \in Tasks :
        LET c == tasks[k]
        IN  /\ (c.found = Err("NotFound")) <=> (UrlFieldsOf(c) = {})
            /\ (/\ UrlFieldsOf(c) # {}
                 /\ ValueAt(c, FirstUrlField(c)) \in MalformedValues)
                => /\ ~c.found.ok
                   /\ c.found.err \in {"InvalidData", "InvalidInput"}
            /\ c.embeds = <<MalformedEmbed(config)>> =>
                    c.found = Err("InvalidData")

\* C13 witness: the correlator was given the single url field
\* "https://x/status/abc"
MalformedFieldRead ==
    \E k \in Tasks :
        /\ tasks[k].embeds = <<MalformedEmbed(config)>>
        /\ ~tasks[k].found.ok
        /\ tasks[k].found.err # "NotFound"

\* C14: the first field named as the url label, scanning the embeds in
\* order and the fields of each in order, alone decides the result: the id
\* when its value ends in one, an error when it does not, whatever the
\* fields after it hold.
FirstMatchWins ==
    \A k \in Tasks :
        LET c == tasks[k]
        IN  UrlFieldsOf(c) # {} =>
                LET v == ValueAt(c, FirstUrlField(c))
                IN  /\ v = WellFormedValue => c.found = Ok(7)
                    /\ v = <<".", ".">> => c.found = Err("InvalidInput")
                    /\ v \in MalformedValues \ {<<".", ".">>} =>
                            c.found = Err("InvalidData")

\* C14 witness: the first url field is malformed, a later url field of
\* another embed ends in an id, and the result is an error
LaterValidIgnored ==
    \E k \in Tasks :
        LET c == tasks[k]
        IN  /\ UrlFieldsOf(c) # {}
            /\ ValueAt(c, FirstUrlField(c)) \in MalformedValues
            /\ \E q \in UrlFieldsOf(c) :
                    /\ q[1] > FirstUrlField(c)[1]
                    /\ ValueAt(c, q) = WellFormedValue
            /\ ~c.found.ok

====
